---- MODULE Spec2Model ----
(***************************************************************************)
(* Model of the trivia generator: the generate endpoint (POST) with its    *)
(* in-memory rate limiter and its retry orchestration over the Gemini      *)
(* model configurations, and the Redis keyword log with its ranking query. *)
(*                                                                         *)
(* Strings are sequences of one-character strings; " " is whitespace.      *)
(* A generated text is a record [len, id]: its length in characters and    *)
(* the provider call <<model index, kind of call>> that produced it.       *)
(***************************************************************************)
EXTENDS Integers, Sequences, FiniteSets, Bags, TLC

VARIABLES
    now,            \* Date.now(), in milliseconds
    API_KEY_RAW,    \* process.env.GEMINI_API_KEY, fixed at module load
    redisEnv,       \* TRUE iff the Upstash URL and token are both set
    rateLimitMap,   \* ip -> admission timestamps (keys present in the Map)
    unswept,        \* the Map as it would be had the clean-up never run
    admissions,     \* ip -> what the environment saw of its admissions lately
    admission,      \* what the environment saw when the request arrived
    pc,             \* position of the request being served
    req,            \* the incoming request: [header, body]
    ip,             \* client key computed by POST
    keyword,        \* trimmed keyword
    mi,             \* index into MODEL_CONFIGS of the configuration tried
    attempt,        \* loop variable of the correction loop
    candidate,      \* current candidate text
    bestCandidate,  \* longest text seen
    retries,        \* correction-attempt counter
    lastError,      \* message of the last error caught by the model loop
    response,       \* the response returned by POST
    calls,          \* provider calls issued by this request, per configuration
    lastCall,       \* the last provider call answered: its position and result
    firstCalls,     \* what each configuration's first call returned
    recorded,       \* the longest texts the request recorded as candidates (if observed)
    logCalls,       \* logKeyword invocations made by this request
    nreq,           \* requests received so far
    pipes,          \* Redis pipelines sent and not yet answered (a bag)
    redis,          \* the Redis data: sorted sets, counters, hash, expiry times
    nlog,           \* pipelines sent so far
    completed,      \* the logKeyword calls that have returned
    ranking,        \* the last getKeywordRanking call and its result
    ADMIN_PASSWORD, \* process.env.ADMIN_PASSWORD
    issued,         \* the admin_token values login has set so far
    loginResponse,  \* the last response of the login endpoint
    stats,          \* the last response of the admin stats endpoint
    parked,         \* requests suspended at an await while another one runs (a bag)
    nextSweep,      \* when the setInterval callback is due next
    tmpKeys,        \* the sorted sets tmp:ranking:7days:{ms} in Redis
    q7              \* the 7-day ranking queries under way, each at its await

rlVars == <<now, API_KEY_RAW, rateLimitMap, unswept, admissions>>
reqVars == <<pc, req, admission, ip, keyword, mi, attempt, candidate, bestCandidate,
             retries, lastError, response, calls, lastCall, firstCalls,
             recorded, logCalls, nreq>>
storeVars == <<redisEnv, pipes, redis, nlog, completed, ranking>>
adminVars == <<ADMIN_PASSWORD, issued, loginResponse, stats>>
schedVars == <<parked, nextSweep>>
unionVars == <<tmpKeys, q7>>
vars == <<rlVars, reqVars, storeVars, adminVars, schedVars, unionVars>>

Null == "null"

----------------------------------------------------------------------------
(* Bounds of the model *)

MaxEpoch == 1       \* the clock runs over MaxEpoch windows and one step more
MaxRequests == 1    \* requests served in the orchestration specification
MaxLogs == 2        \* logKeyword calls in the store specification
MaxParked == 1      \* requests waiting at an await while another one runs
MaxStored == 2      \* timestamps an address holds in the sweep specification

----------------------------------------------------------------------------
(* Strings *)

Rep(c, n) == [i \in 1..n |-> c]

IsSpace(c) == c = " "

RECURSIVE TrimLeft(_)
TrimLeft(s) == IF s = <<>> THEN s
               ELSE IF IsSpace(Head(s)) THEN TrimLeft(Tail(s)) ELSE s

RECURSIVE TrimRight(_)
TrimRight(s) == IF s = <<>> THEN s
                ELSE IF IsSpace(s[Len(s)]) THEN TrimRight(SubSeq(s, 1, Len(s) - 1))
                ELSE s

\* String.prototype.trim
Trim(s) == TrimRight(TrimLeft(s))

----------------------------------------------------------------------------
(* Rate limiting *)

RATE_LIMIT_PER_MINUTE == 10
windowMs == 60000
SWEEP_INTERVAL == 5 * 60000

MapSet(m, k, v) == [x \in DOMAIN m \cup {k} |-> IF x = k THEN v ELSE m[x]]

\* rateLimitMap.get(ip) || []
Timestamps(key) == IF key \in DOMAIN rateLimitMap THEN rateLimitMap[key] ELSE <<>>

InWindowInclusive(t, at) == at - t <= windowMs
\* the filter predicate: now - t < windowMs
InWindow(t, at) == at - t < windowMs

\* timestamps.filter((t) => now - t < windowMs)
Recent(ts, at) == SelectSeq(ts, LAMBDA t : InWindow(t, at))

AtLimitExclusive(recent) == Len(recent) > RATE_LIMIT_PER_MINUTE
\* recent.length >= RATE_LIMIT_PER_MINUTE
AtLimit(recent) == Len(recent) >= RATE_LIMIT_PER_MINUTE

\* the value isRateLimited(ip) returns
isRateLimited(key) == AtLimit(Recent(Timestamps(key), now))

rateLimitMapAfterAllKeys(key) ==
    [k \in DOMAIN rateLimitMap \cup {key} |->
        IF AtLimit(Recent(Timestamps(k), now)) THEN Recent(Timestamps(k), now)
        ELSE Append(Recent(Timestamps(k), now), now)]
rateLimitMapAfterAlwaysPush(key) ==
    MapSet(rateLimitMap, key, Append(Recent(Timestamps(key), now), now))
\* the Map isRateLimited(ip) leaves behind
rateLimitMapAfter(key) ==
    LET recent == Recent(Timestamps(key), now)
    IN  IF AtLimit(recent) THEN MapSet(rateLimitMap, key, recent)
        ELSE MapSet(rateLimitMap, key, Append(recent, now))

\* isRateLimited(ip) on the Map that is never cleaned up
Unswept(key) == IF key \in DOMAIN unswept THEN unswept[key] ELSE <<>>
isRateLimitedUnswept(key) == AtLimit(Recent(Unswept(key), now))
unsweptAfter(key) ==
    LET recent == Recent(Unswept(key), now)
    IN  IF AtLimit(recent) THEN MapSet(unswept, key, recent)
        ELSE MapSet(unswept, key, Append(recent, now))

\* What an observer of the responses knows of an address: the times of its
\* admitted requests of the last 60 seconds, and whether a request of it was
\* rejected since its last admitted one.
NoAdmissions == [times |-> <<>>, rejected |-> FALSE]
Admissions(key) == IF key \in DOMAIN admissions THEN admissions[key] ELSE NoAdmissions
Lately(times, at) == SelectSeq(times, LAMBDA t : at - t < 60000)
Observe(key, admitted) ==
    MapSet(admissions, key,
           IF admitted THEN [times |-> Append(Admissions(key).times, now), rejected |-> FALSE]
           ELSE [times |-> Admissions(key).times, rejected |-> TRUE])

----------------------------------------------------------------------------
(* The request and the provider *)

\* an x-forwarded-for header is the list of its comma-separated addresses
NoHeader == <<>>

\* forwarded ? forwarded.split(",")[0].trim() : "unknown"
Unknown == <<"u", "n", "k", "n", "o", "w", "n">>
ClientIp(header) == IF header = NoHeader THEN Unknown ELSE Trim(header[1])

\* a request body: unparseable JSON, a keyword that is no string (a number),
\* or a string keyword (the empty string when the field is missing)
BadJson == [parsed |-> FALSE, isString |-> FALSE, keyword |-> <<>>]
NotAString == [parsed |-> TRUE, isString |-> FALSE, keyword |-> <<>>]
Body(k) == [parsed |-> TRUE, isString |-> TRUE, keyword |-> k]

MAX_KEYWORD_LENGTH == 30
MIN_LENGTH == 70
MAX_LENGTH == 100
MAX_CORRECTIONS == 3
MIN_FALLBACK_LENGTH == 10

Txt(n, tag) == [len |-> n, id |-> tag]
\* null (and the empty string): what !text is true of
NoText == Txt(0, <<0, 0>>)
IsFalsy(text) == text.len = 0

isValidLengthOffByOne(text) == text.len >= MIN_LENGTH /\ text.len <= MAX_LENGTH + 1
\* len >= 70 && len <= 100
isValidLength(text) == text.len >= MIN_LENGTH /\ text.len <= MAX_LENGTH

MODEL_CONFIGS ==
    << [name |-> "gemini-2.0-flash", maxOutputTokens |-> 500, thinkingConfig |-> <<>>],
       [name |-> "gemini-2.5-flash", maxOutputTokens |-> 8192, thinkingConfig |-> <<0>>],
       [name |-> "gemini-2.0-flash-lite", maxOutputTokens |-> 500, thinkingConfig |-> <<>>] >>

NumModels == Len(MODEL_CONFIGS)
ModelNames == {MODEL_CONFIGS[i].name : i \in 1..NumModels}

\* What fetch() does: it rejects (timeout after 20 s or transport failure) or
\* resolves with a status and, when the status is 200, a JSON document.  The
\* document holds at most one candidate here; its text field stands for the
\* joined non-thought text parts (NoText when there is none).
NoData == [candidates |-> <<>>]
Data(text, reason) == [candidates |-> <<[text |-> text, finishReason |-> reason]>>]
Rejected(why) == [kind |-> why, status |-> 0, data |-> NoData]
Http(status, data) == [kind |-> "http", status |-> status, data |-> data]

\* extractText
extractText(data) ==
    IF Len(data.candidates) = 0 THEN NoText ELSE data.candidates[1].text

getFinishReasonMapped(data) ==
    IF Len(data.candidates) = 0 THEN "UNKNOWN"
    ELSE IF data.candidates[1].finishReason \in {"STOP", "MAX_TOKENS"}
         THEN data.candidates[1].finishReason
    ELSE "UNKNOWN"
\* getFinishReason: (candidates[0]?.finishReason as string) || "UNKNOWN"
getFinishReason(data) ==
    IF Len(data.candidates) = 0 THEN "UNKNOWN"
    ELSE IF data.candidates[1].finishReason = Null THEN "UNKNOWN"
    ELSE data.candidates[1].finishReason

Threw(msg) == [threw |-> TRUE, error |-> msg, text |-> NoText, finishReason |-> Null]
Returned(text, reason) == [threw |-> FALSE, error |-> Null, text |-> text, finishReason |-> reason]

\* callGemini: what the call returns or throws for a fetch outcome
callGemini(resp) ==
    IF resp.kind # "http" THEN Threw(resp.kind)
    ELSE IF resp.status # 200
         THEN IF resp.status = 404 THEN Returned(NoText, "NOT_FOUND")
              ELSE Threw("HTTP")
         ELSE Returned(extractText(resp.data), getFinishReason(resp.data))

\* the fetch outcomes of a provider call whose texts are tagged `tag`
Outcomes(tag, lens, reasons) ==
    {Rejected("fetch failed"), Http(404, NoData), Http(500, NoData),
     Http(200, NoData)}
    \cup {Http(200, Data(NoText, f)) : f \in reasons}
    \cup {Http(200, Data(Txt(n, tag), f)) : n \in lens, f \in reasons}

TextLengths == {9, 10, 100, 101}
FinishReasons == {"STOP", "MAX_TOKENS", Null}

----------------------------------------------------------------------------
(* The keyword log (Redis) *)

MsPerDay == 24 * 60 * 60 * 1000

\* todayKey(): the calendar date of the clock, as a day number
todayKey == now \div MsPerDay

\* classifyGenre(keyword) is imported from ./genre, which is not among the
\* sources: some total function from keywords to genre names.  This one stands
\* for it; it only chooses the genre set and the genre recorded for a keyword.
classifyGenre(k) == IF k[1] = "a" THEN "food" ELSE "other"

\* expire(key, 60 * 60 * 24 * 31): seconds; Redis keeps the expiry time in seconds
ExpireSeconds == 60 * 60 * 24 * 31
nowSeconds == now \div 1000

EmptyRedis == [all |-> <<>>, daily |-> <<>>, genre |-> <<>>, stats |-> <<>>,
               genres |-> <<>>, ttl |-> <<>>]

\* a key with an expiry time that has passed is gone
Expired(r, date) == date \in DOMAIN r.ttl /\ r.ttl[date] <= nowSeconds

\* the sorted set keywords:daily:{date}
DailySet(r, date) ==
    IF date \in DOMAIN r.daily /\ ~Expired(r, date) THEN r.daily[date] ELSE <<>>

\* the counter stats:daily:{date}
DailyStat(r, date) ==
    IF date \in DOMAIN r.stats /\ ~Expired(r, date) THEN r.stats[date] ELSE 0

GenreSet(r, g) == IF g \in DOMAIN r.genre THEN r.genre[g] ELSE <<>>

\* ZINCRBY key 1 member
zincrby(z, member) ==
    MapSet(z, member, IF member \in DOMAIN z THEN z[member] + 1 ELSE 1)

\* the pipeline logKeyword builds for a keyword
Pipeline(k) ==
    [keyword |-> k, normalized |-> Trim(k), genre |-> classifyGenre(Trim(k)),
     date |-> todayKey]

\* pipe.exec(): the seven commands of the pipeline, in order
Exec(r, p) ==
    [all |-> zincrby(r.all, p.normalized),
     daily |-> MapSet(r.daily, p.date, zincrby(DailySet(r, p.date), p.normalized)),
     genre |-> MapSet(r.genre, p.genre, zincrby(GenreSet(r, p.genre), p.normalized)),
     stats |-> MapSet(r.stats, p.date, DailyStat(r, p.date) + 1),
     genres |-> MapSet(r.genres, p.normalized, p.genre),
     ttl |-> MapSet(r.ttl, p.date, nowSeconds + ExpireSeconds)]

Done(k, wrote) == [keyword |-> k, date |-> todayKey, wrote |-> wrote]

\* logKeyword(keyword) up to its await: nothing is sent when Redis is not
\* configured or the keyword is empty after trimming
logKeywordCall(k) ==
    /\ IF ~redisEnv \/ Trim(k) = <<>>
       THEN /\ pipes' = pipes
            /\ nlog' = nlog
            /\ completed' = completed \cup {Done(k, FALSE)}
       ELSE /\ pipes' = pipes (+) SetToBag({Pipeline(k)})
            /\ nlog' = nlog + 1
            /\ completed' = completed
    /\ UNCHANGED <<redisEnv, redis, ranking>>

\* await pipe.exec() returns or throws (the error is caught and logged)
PipeExec(p, ok) ==
    /\ p \in BagToSet(pipes)
    /\ pipes' = pipes (-) SetToBag({p})
    /\ redis' = IF ok THEN Exec(redis, p) ELSE redis
    /\ completed' = completed \cup {[keyword |-> p.keyword, date |-> p.date, wrote |-> ok]}
    /\ UNCHANGED <<redisEnv, nlog, ranking, rlVars, reqVars, adminVars, unionVars, schedVars>>

----------------------------------------------------------------------------
(* POST: the generate endpoint *)

NoResponse == [status |-> 0, code |-> "", trivia |-> NoText, model |-> "",
               retries |-> 0, details |-> ""]
ErrorResponse(status, code, details) ==
    [status |-> status, code |-> code, trivia |-> NoText, model |-> "",
     retries |-> 0, details |-> details]
Success(trivia, model, n) ==
    [status |-> 200, code |-> "ok", trivia |-> trivia, model |-> model,
     retries |-> n, details |-> ""]

NoCall == [m |-> 0, k |-> 0, result |-> Returned(NoText, Null)]
NoFirstCalls == [n |-> 0, onlyNotFound |-> TRUE, onlyTruncated |-> TRUE, texts |-> {}]
NoCalls == [total |-> 0, cfg |-> 0]

IsTruncatedOther(result) == result.finishReason = "LENGTH"
\* finishReason === "MAX_TOKENS"
IsTruncated(result) == result.finishReason = "MAX_TOKENS"

\* The longest of the texts a request has recorded as candidates: kept only
\* where a specification observes them.
NotObserved == [on |-> FALSE, texts |-> {}]
Observed == [on |-> TRUE, texts |-> {}]
LongestOf(S) == {t \in S : \A u \in S : u.len <= t.len}
Record(text) ==
    IF ~recorded.on THEN recorded
    ELSE [recorded EXCEPT !.texts = LongestOf(@ \cup {text})]

\* API_KEY_RAW ? API_KEY_RAW.trim() : ""
API_KEY_Untrimmed == API_KEY_RAW
API_KEY == Trim(API_KEY_RAW)

TrackBestOrEqual(best, cand) == IF IsFalsy(best) \/ cand.len >= best.len THEN cand ELSE best
\* if (!bestCandidate || candidate.length > bestCandidate.length) bestCandidate = candidate
TrackBest(best, cand) == IF IsFalsy(best) \/ cand.len > best.len THEN cand ELSE best

\* the response returns before any await: nothing of the orchestration is left
Return(resp) ==
    /\ pc' = "done"
    /\ response' = resp

RespondLogAlways(generatedTrivia, usedModel, best, n, err) ==
    LET useFallback == IsFalsy(generatedTrivia) /\ ~IsFalsy(best)
                       /\ best.len >= MIN_FALLBACK_LENGTH
        trivia == IF useFallback THEN best ELSE generatedTrivia
        model == IF useFallback THEN "fallback" ELSE usedModel
    IN  /\ bestCandidate' = best
        /\ retries' = n
        /\ lastError' = err
        /\ UNCHANGED <<mi, attempt, candidate, calls>>
        /\ logCalls' = logCalls + 1
        /\ logKeywordCall(keyword)
        /\ IF IsFalsy(trivia)
           THEN Return(ErrorResponse(500, "generation_failed", err))
           ELSE Return(Success(trivia, model, n))
RespondShortFallback(generatedTrivia, usedModel, best, n, err) ==
    LET useFallback == IsFalsy(generatedTrivia) /\ ~IsFalsy(best)
                       /\ best.len >= MIN_FALLBACK_LENGTH - 1
        trivia == IF useFallback THEN best ELSE generatedTrivia
        model == IF useFallback THEN "fallback" ELSE usedModel
    IN  /\ bestCandidate' = best
        /\ retries' = n
        /\ lastError' = err
        /\ UNCHANGED <<mi, attempt, candidate, calls>>
        /\ IF IsFalsy(trivia)
           THEN /\ Return(ErrorResponse(500, "generation_failed", err))
                /\ UNCHANGED <<logCalls, storeVars>>
           ELSE /\ Return(Success(trivia, model, n))
                /\ logCalls' = logCalls + 1
                /\ logKeywordCall(keyword)
\* lines 370-403: fallback, total failure, or success with the keyword logged
Respond(generatedTrivia, usedModel, best, n, err) ==
    LET useFallback == IsFalsy(generatedTrivia) /\ ~IsFalsy(best)
                       /\ best.len >= MIN_FALLBACK_LENGTH
        trivia == IF useFallback THEN best ELSE generatedTrivia
        model == IF useFallback THEN "fallback" ELSE usedModel
    IN  /\ bestCandidate' = best
        /\ retries' = n
        /\ lastError' = err
        /\ UNCHANGED <<mi, attempt, candidate, calls>>
        /\ IF IsFalsy(trivia)
           THEN /\ Return(ErrorResponse(500, "generation_failed", err))
                /\ UNCHANGED <<logCalls, storeVars>>
           ELSE /\ Return(Success(trivia, model, n))
                /\ logCalls' = logCalls + 1
                /\ logKeywordCall(keyword)

StartModelReversed(m, best, n, err) ==
    /\ pc' = "first"
    /\ mi' = NumModels + 1 - m
    /\ attempt' = 0
    /\ candidate' = NoText
    /\ bestCandidate' = best
    /\ retries' = n
    /\ lastError' = err
    /\ calls' = [total |-> calls.total + 1, cfg |-> 1]
    /\ UNCHANGED <<response, logCalls, storeVars>>
StartModelResetRetries(m, best, n, err) ==
    /\ pc' = "first"
    /\ mi' = m
    /\ attempt' = 0
    /\ candidate' = NoText
    /\ bestCandidate' = best
    /\ retries' = 0
    /\ lastError' = err
    /\ calls' = [total |-> calls.total + 1, cfg |-> 1]
    /\ UNCHANGED <<response, logCalls, storeVars>>
\* the first call of configuration m is sent
StartModel(m, best, n, err) ==
    /\ pc' = "first"
    /\ mi' = m
    /\ attempt' = 0
    /\ candidate' = NoText
    /\ bestCandidate' = best
    /\ retries' = n
    /\ lastError' = err
    /\ calls' = [total |-> calls.total + 1, cfg |-> 1]
    /\ UNCHANGED <<response, logCalls, storeVars>>

NextModelStop(best, n, err) == Respond(NoText, "", best, n, err)
\* the loop goes on to the next configuration, or ends
NextModel(best, n, err) ==
    IF mi < NumModels THEN StartModel(mi + 1, best, n, err)
    ELSE Respond(NoText, "", best, n, err)

\* catch (e) { lastError = e } of the model loop
Escalate(best, n, err) == NextModel(best, n, err)

\* if (isValidLength(candidate)) { generatedTrivia = candidate; usedModel = name; break }
Accept(cand, best, n) ==
    Respond(cand, MODEL_CONFIGS[mi].name, best, n, lastError)

\* after the correction loop (lines 353-362): acceptance or escalation
AfterLoop(cand, best, n) ==
    IF isValidLength(cand) THEN Accept(cand, best, n)
    ELSE Escalate(best, n, "out of range")

LoopTestUncounted(att, cand, best, n) ==
    IF att < MAX_CORRECTIONS /\ ~isValidLength(cand)
    THEN /\ pc' = "retry"
         /\ attempt' = att
         /\ candidate' = cand
         /\ bestCandidate' = best
         /\ retries' = n
         /\ calls' = [total |-> calls.total + 1, cfg |-> calls.cfg + 1]
         /\ UNCHANGED <<mi, lastError, response, logCalls, storeVars>>
    ELSE AfterLoop(cand, best, n)
LoopTestOneMore(att, cand, best, n) ==
    IF att < MAX_CORRECTIONS + 1 /\ ~isValidLength(cand)
    THEN /\ pc' = "retry"
         /\ attempt' = att
         /\ candidate' = cand
         /\ bestCandidate' = best
         /\ retries' = n + 1
         /\ calls' = [total |-> calls.total + 1, cfg |-> calls.cfg + 1]
         /\ UNCHANGED <<mi, lastError, response, logCalls, storeVars>>
    ELSE AfterLoop(cand, best, n)
\* the correction loop at its test, with loop variable att and candidate cand:
\* another correction call is sent, or the loop ends
LoopTest(att, cand, best, n) ==
    IF att < MAX_CORRECTIONS /\ ~isValidLength(cand)
    THEN /\ pc' = "retry"
         /\ attempt' = att
         /\ candidate' = cand
         /\ bestCandidate' = best
         /\ retries' = n + 1
         /\ calls' = [total |-> calls.total + 1, cfg |-> calls.cfg + 1]
         /\ UNCHANGED <<mi, lastError, response, logCalls, storeVars>>
    ELSE AfterLoop(cand, best, n)

\* POST up to await req.json(): configuration check and rate limiting
POST_Admit(r) ==
    /\ pc \in {"idle", "done"}
    /\ req' = r
    /\ ip' = ClientIp(r.header)
    /\ nreq' = IF nreq < MaxRequests THEN nreq + 1 ELSE nreq
    /\ keyword' = <<>>
    /\ mi' = 0
    /\ attempt' = 0
    /\ candidate' = NoText
    /\ bestCandidate' = NoText
    /\ retries' = 0
    /\ lastError' = Null
    /\ calls' = NoCalls
    /\ lastCall' = NoCall
    /\ firstCalls' = NoFirstCalls
    /\ recorded' = [recorded EXCEPT !.texts = {}]
    /\ logCalls' = 0
    /\ admission' = [before |-> Len(Lately(Admissions(ClientIp(r.header)).times, now)),
                      afterReject |-> Admissions(ClientIp(r.header)).rejected]
    /\ IF API_KEY = <<>>
       THEN /\ Return(ErrorResponse(500, "config_error", ""))
            /\ UNCHANGED <<rateLimitMap, unswept, admissions>>
       ELSE /\ rateLimitMap' = rateLimitMapAfter(ClientIp(r.header))
            /\ unswept' = unsweptAfter(ClientIp(r.header))
            /\ IF isRateLimited(ClientIp(r.header))
               THEN /\ Return(ErrorResponse(429, "rate_limited", ""))
                    /\ admissions' = Observe(ClientIp(r.header), FALSE)
               ELSE /\ pc' = "body"
                    /\ response' = NoResponse
                    /\ admissions' = Observe(ClientIp(r.header), TRUE)
    /\ UNCHANGED <<now, API_KEY_RAW, storeVars, adminVars, unionVars, schedVars>>

TooLongOffByOne(k) == Len(k) > MAX_KEYWORD_LENGTH + 1
\* keyword.length > 30
TooLong(k) == Len(k) > MAX_KEYWORD_LENGTH

\* POST from the body to the first provider call: parsing and validation
POST_Body ==
    /\ pc = "body"
    /\ UNCHANGED <<rlVars, req, admission, ip, nreq, lastCall, firstCalls, recorded,
                   adminVars, unionVars, schedVars>>
    /\ IF ~req.body.parsed \/ ~req.body.isString
       THEN \* req.json() or .trim() throws: the outer catch answers
            /\ Return(ErrorResponse(500, "generation_failed", "server error"))
            /\ UNCHANGED <<keyword, mi, attempt, candidate, bestCandidate, retries,
                           lastError, calls, logCalls, storeVars>>
       ELSE LET kw == Trim(req.body.keyword)
            IN  /\ keyword' = kw
                /\ IF kw = <<>> \/ TooLong(kw)
                   THEN /\ Return(ErrorResponse(400, "validation_error", ""))
                        /\ UNCHANGED <<mi, attempt, candidate, bestCandidate, retries,
                                       lastError, calls, logCalls, storeVars>>
                   ELSE StartModel(1, NoText, 0, Null)

\* what the first calls of the request returned so far: how many were answered,
\* whether every one was a 404, whether every one was reported truncated, and,
\* as long as every one was, the texts they carried
NoteFirst(resp) ==
    LET cands == resp.data.candidates
        truncated == /\ firstCalls.onlyTruncated
                     /\ resp.kind = "http" /\ resp.status = 200 /\ Len(cands) > 0
                     /\ cands[1].finishReason = "MAX_TOKENS"
    IN  [n |-> firstCalls.n + 1,
         onlyNotFound |-> firstCalls.onlyNotFound /\ resp.kind = "http" /\ resp.status = 404,
         onlyTruncated |-> truncated,
         texts |-> IF ~truncated THEN {}
                   ELSE IF cands[1].text = NoText THEN firstCalls.texts
                   ELSE firstCalls.texts \cup {cands[1].text}]

\* the first call of the configuration returns or throws (lines 302-327)
FirstReply(resp) ==
    /\ pc = "first"
    /\ LET result == callGemini(resp)
           best == TrackBest(bestCandidate, result.text)
       IN  /\ lastCall' = [m |-> mi, k |-> 0, result |-> result]
           /\ firstCalls' = NoteFirst(resp)
           /\ recorded' = IF result.threw \/ IsFalsy(result.text) THEN recorded
                          ELSE Record(result.text)
           /\ IF result.threw THEN Escalate(bestCandidate, retries, result.error)
              ELSE IF IsFalsy(result.text)
                   THEN IF result.finishReason = "NOT_FOUND"
                        THEN NextModel(bestCandidate, retries, lastError)
                        ELSE Escalate(bestCandidate, retries, "empty")
              ELSE IF IsTruncated(result)
                   THEN Escalate(best, retries, "MAX_TOKENS")
              ELSE LoopTest(0, result.text, best, retries)
    /\ UNCHANGED <<rlVars, req, admission, ip, keyword, nreq, adminVars, unionVars, schedVars>>

RetryReplyNoBreak(resp) ==
    /\ pc = "retry"
    /\ LET result == callGemini(resp)
       IN  /\ lastCall' = [m |-> mi, k |-> attempt + 1, result |-> result]
           /\ recorded' = IF result.threw \/ IsFalsy(result.text)
                             \/ result.finishReason = "MAX_TOKENS"
                          THEN recorded ELSE Record(result.text)
           /\ IF result.threw THEN Escalate(bestCandidate, retries, result.error)
              ELSE IF IsFalsy(result.text)
                   THEN AfterLoop(candidate, bestCandidate, retries)
              ELSE LoopTest(attempt + 1, result.text,
                            TrackBest(bestCandidate, result.text), retries)
    /\ UNCHANGED <<rlVars, req, admission, ip, keyword, nreq, firstCalls, adminVars, unionVars, schedVars>>
\* a correction call returns or throws (lines 339-351)
RetryReply(resp) ==
    /\ pc = "retry"
    /\ LET result == callGemini(resp)
       IN  /\ lastCall' = [m |-> mi, k |-> attempt + 1, result |-> result]
           /\ recorded' = IF result.threw \/ IsFalsy(result.text)
                             \/ result.finishReason = "MAX_TOKENS"
                          THEN recorded ELSE Record(result.text)
           /\ IF result.threw THEN Escalate(bestCandidate, retries, result.error)
              ELSE IF IsFalsy(result.text) \/ IsTruncated(result)
                   THEN \* break: the candidate stays the one that was out of range
                        AfterLoop(candidate, bestCandidate, retries)
              ELSE LoopTest(attempt + 1, result.text,
                            TrackBest(bestCandidate, result.text), retries)
    /\ UNCHANGED <<rlVars, req, admission, ip, keyword, nreq, firstCalls, adminVars, unionVars, schedVars>>

----------------------------------------------------------------------------
(* getKeywordRanking *)

Alphabet == <<" ", "a", "b", "c">>
Ord(c) == CHOOSE i \in 1..Len(Alphabet) : Alphabet[i] = c

\* the order of Redis on members: bytewise
RECURSIVE LexLess(_, _)
LexLess(a, b) ==
    IF b = <<>> THEN FALSE
    ELSE IF a = <<>> THEN TRUE
    ELSE IF Head(a) = Head(b) THEN LexLess(Tail(a), Tail(b))
    ELSE Ord(Head(a)) < Ord(Head(b))

\* x comes before y in a reversed range: higher score, then higher member
Above(z, x, y) == z[x] > z[y] \/ (z[x] = z[y] /\ LexLess(y, x))

RECURSIVE SortedRev(_, _)
SortedRev(z, S) ==
    IF S = {} THEN <<>>
    ELSE LET top == CHOOSE x \in S : \A y \in S \ {x} : Above(z, x, y)
         IN  <<top>> \o SortedRev(z, S \ {top})

RECURSIVE Flat(_, _)
Flat(z, members) ==
    IF members = <<>> THEN <<>>
    ELSE <<Head(members), z[Head(members)]>> \o Flat(z, Tail(members))

zrangeShort(z, stop) ==
    LET all == SortedRev(z, DOMAIN z)
    IN  Flat(z, SubSeq(all, 1, IF stop < Len(all) THEN stop ELSE Len(all)))
\* zrange(key, 0, stop, {rev: true, withScores: true}): the flat reply
zrange(z, stop) ==
    LET all == SortedRev(z, DOMAIN z)
    IN  Flat(z, SubSeq(all, 1, IF stop + 1 < Len(all) THEN stop + 1 ELSE Len(all)))

\* parseZrangeResult: the flat reply [member, score, ...] as pairs
parseZrangeResult(raw) ==
    [i \in 1..(Len(raw) \div 2) |-> [member |-> raw[2 * i - 1], score |-> raw[2 * i]]]

DEFAULT_LIMIT == 50
NoGenre == ""

RankingSetPeriodFirst(r, period, genre) ==
    IF period = "today" THEN DailySet(r, todayKey)
    ELSE IF genre # NoGenre THEN GenreSet(r, genre)
    ELSE r.all
\* the sorted set a ranking is read from (the 7-day union is not read here)
RankingSet(r, period, genre) ==
    IF genre # NoGenre THEN GenreSet(r, genre)
    ELSE IF period = "all" THEN r.all
    ELSE DailySet(r, todayKey)

\* getGenreMap and the final map: genreMap[member] || "other"
WithGenre(r, results) ==
    [i \in 1..Len(results) |->
        [keyword |-> results[i].member, count |-> results[i].score,
         genre |-> IF results[i].member \in DOMAIN r.genres
                   THEN r.genres[results[i].member] ELSE "other"]]

\* getKeywordRanking(period, limit, genre) when its reads succeed
getKeywordRanking(r, period, limit, genre) ==
    IF ~redisEnv THEN <<>>
    ELSE WithGenre(r, parseZrangeResult(zrange(RankingSet(r, period, genre), limit - 1)))

\* a call of getKeywordRanking: its reads succeed, or one throws and [] is returned
GetKeywordRanking(period, limit, genre, ok) ==
    /\ ranking' = [period |-> period, limit |-> limit, genre |-> genre, date |-> todayKey,
                   result |-> IF ok THEN getKeywordRanking(redis, period, limit, genre)
                              ELSE <<>>]
    /\ UNCHANGED <<redisEnv, pipes, redis, nlog, completed, rlVars, reqVars, adminVars, unionVars, schedVars>>

\* a direct call of logKeyword
LogKeyword(k) ==
    /\ nlog < MaxLogs
    /\ logKeywordCall(k)
    /\ UNCHANGED <<rlVars, reqVars, adminVars, unionVars, schedVars>>

----------------------------------------------------------------------------
(* getKeywordRanking("7days"): the union of seven daily sets in a temporary key *)

\* the calls of getKeywordRanking("7days", 50) that may be under way at once
Queries == {"q1", "q2"}

\* dateKeys(7): today and the six days before
dateKeys(days) == [i \in 1..days |-> todayKey - (i - 1)]

\* r.exists(`keywords:daily:${k}`)
exists(r, date) == date \in DOMAIN r.daily /\ ~Expired(r, date)

RECURSIVE ScoreSum(_, _, _)
ScoreSum(r, dates, member) ==
    IF dates = <<>> THEN 0
    ELSE (IF member \in DOMAIN DailySet(r, Head(dates))
          THEN DailySet(r, Head(dates))[member] ELSE 0)
         + ScoreSum(r, Tail(dates), member)

\* ZUNIONSTORE over the daily sets of the dates: the scores of a member add up
zunion(r, dates) ==
    [member \in UNION {DOMAIN DailySet(r, dates[i]) : i \in 1..Len(dates)} |->
        ScoreSum(r, dates, member)]

\* a key that holds no member does not exist
Stored(keys, key, z) ==
    IF DOMAIN z = {} THEN [k \in DOMAIN keys \ {key} |-> keys[k]]
    ELSE MapSet(keys, key, z)

\* the sorted set under a temporary key (empty when the key is not there)
TmpSet(key) == IF key \in DOMAIN tmpKeys THEN tmpKeys[key] ELSE <<>>

NoTmpKey == 0 - 1
NoQuery == [pc |-> "idle", keys |-> <<>>, i |-> 0, existingKeys |-> <<>>,
            tmpKey |-> NoTmpKey, results |-> <<>>, result |-> <<>>,
            failed |-> FALSE, seen |-> EmptyRedis]

\* the call up to its first await: r.exists of the first date is sent
Q_Start(q) ==
    /\ q7[q].pc = "idle"
    /\ q7' = [q7 EXCEPT ![q] =
                IF ~redisEnv THEN [@ EXCEPT !.pc = "done"]
                ELSE [@ EXCEPT !.pc = "exists", !.keys = dateKeys(7), !.i = 1,
                               !.seen = redis]]
    /\ UNCHANGED <<tmpKeys, rlVars, reqVars, storeVars, adminVars, schedVars>>

\* r.exists returns: the next date is asked for, or, after the last one, the
\* call returns [] when no daily set exists and otherwise names its temporary
\* key after Date.now() and sends ZUNIONSTORE
Q_Exists(q) ==
    /\ q7[q].pc = "exists"
    /\ LET c == q7[q]
           found == IF exists(redis, c.keys[c.i])
                    THEN Append(c.existingKeys, c.keys[c.i]) ELSE c.existingKeys
       IN  q7' = [q7 EXCEPT ![q] =
                    IF c.i < Len(c.keys)
                    THEN [c EXCEPT !.i = c.i + 1, !.existingKeys = found]
                    ELSE IF Len(found) = 0
                    THEN [c EXCEPT !.pc = "done", !.existingKeys = found]
                    ELSE [c EXCEPT !.pc = "zunionstore", !.existingKeys = found,
                                   !.tmpKey = now]]
    /\ UNCHANGED <<tmpKeys, rlVars, reqVars, storeVars, adminVars, schedVars>>

\* ZUNIONSTORE is executed and ZRANGE is sent
Q_ZUnionStore(q) ==
    /\ q7[q].pc = "zunionstore"
    /\ tmpKeys' = Stored(tmpKeys, q7[q].tmpKey, zunion(redis, q7[q].existingKeys))
    /\ q7' = [q7 EXCEPT ![q].pc = "zrange"]
    /\ UNCHANGED <<rlVars, reqVars, storeVars, adminVars, schedVars>>

\* ZRANGE tmpKey 0 limit-1 REV WITHSCORES is executed and DEL is sent
Q_ZRange(q) ==
    /\ q7[q].pc = "zrange"
    /\ q7' = [q7 EXCEPT ![q].pc = "del",
                        ![q].results =
                            parseZrangeResult(zrange(TmpSet(q7[q].tmpKey), DEFAULT_LIMIT - 1))]
    /\ UNCHANGED <<tmpKeys, rlVars, reqVars, storeVars, adminVars, schedVars>>

\* DEL tmpKey is executed and the genres of the members are asked for
Q_Del(q) ==
    /\ q7[q].pc = "del"
    /\ tmpKeys' = [k \in DOMAIN tmpKeys \ {q7[q].tmpKey} |-> tmpKeys[k]]
    /\ q7' = [q7 EXCEPT ![q].pc = "getGenreMap"]
    /\ UNCHANGED <<rlVars, reqVars, storeVars, adminVars, schedVars>>

\* getGenreMap returns and the call returns its ranking
Q_Return(q) ==
    /\ q7[q].pc = "getGenreMap"
    /\ q7' = [q7 EXCEPT ![q].pc = "done",
                        ![q].result = WithGenre(redis, q7[q].results)]
    /\ UNCHANGED <<tmpKeys, rlVars, reqVars, storeVars, adminVars, schedVars>>

\* the Redis call awaited throws: the catch logs the error and returns []
Q_Throw(q) ==
    /\ q7[q].pc \in {"exists", "zunionstore", "zrange", "del", "getGenreMap"}
    /\ q7' = [q7 EXCEPT ![q].pc = "done", ![q].failed = TRUE, ![q].result = <<>>]
    /\ UNCHANGED <<tmpKeys, rlVars, reqVars, storeVars, adminVars, schedVars>>

----------------------------------------------------------------------------
(* The admin endpoints: login and stats *)

\* a cookie value is a string; no cookie and the empty value are both falsy
NoCookie == <<>>

\* Buffer.from(`admin:${adminPassword}:${Date.now()}`).toString("base64"):
\* base64 is one-to-one, the token stands for the text it encodes
Token(password, at) == <<"admin", ":">> \o password \o <<":", ToString(at)>>

\* a login body: unparseable, or an object with a password
BadLogin == [parsed |-> FALSE, password |-> <<>>]
LoginBody(password) == [parsed |-> TRUE, password |-> password]

NoLogin == [status |-> 0, cookie |-> NoCookie]
NoStats == [status |-> 0, cookie |-> NoCookie, period |-> "", ranking |-> <<>>]

\* POST /api/admin/login
AdminLogin(body) ==
    /\ IF ~body.parsed
       THEN loginResponse' = [status |-> 400, cookie |-> NoCookie] /\ issued' = issued
       ELSE IF ADMIN_PASSWORD = <<>>
       THEN loginResponse' = [status |-> 500, cookie |-> NoCookie] /\ issued' = issued
       ELSE IF body.password # ADMIN_PASSWORD
       THEN loginResponse' = [status |-> 401, cookie |-> NoCookie] /\ issued' = issued
       ELSE /\ loginResponse' = [status |-> 200, cookie |-> Token(ADMIN_PASSWORD, now)]
            /\ issued' = issued \cup {Token(ADMIN_PASSWORD, now)}
    /\ UNCHANGED <<ADMIN_PASSWORD, stats, rlVars, reqVars, storeVars, schedVars, unionVars>>

\* isAuthenticated: !!token, the cookie exists (and is not empty)
isAuthenticated(cookie) == cookie # NoCookie

\* GET /api/admin/stats: the readers catch their own errors, GET returns 200
\* with what they return
GET(cookie, period, genre, ok) ==
    /\ stats' = IF ~isAuthenticated(cookie)
                THEN [status |-> 401, cookie |-> cookie, period |-> period,
                      ranking |-> <<>>]
                ELSE [status |-> 200, cookie |-> cookie, period |-> period,
                      ranking |-> IF ok
                                  THEN getKeywordRanking(redis, period, DEFAULT_LIMIT, genre)
                                  ELSE <<>>]
    /\ UNCHANGED <<ADMIN_PASSWORD, issued, loginResponse, rlVars, reqVars, storeVars,
                   schedVars, unionVars>>

----------------------------------------------------------------------------
(* Concurrent requests: one JavaScript thread, tasks interleave at awaits *)

\* the locals and the position of the request that is running
Context ==
    [pc |-> pc, req |-> req, admission |-> admission, ip |-> ip, keyword |-> keyword,
     mi |-> mi, attempt |-> attempt, candidate |-> candidate,
     bestCandidate |-> bestCandidate, retries |-> retries, lastError |-> lastError,
     response |-> response, calls |-> calls, lastCall |-> lastCall,
     firstCalls |-> firstCalls, recorded |-> recorded, logCalls |-> logCalls]

\* no request is running
Idle ==
    [pc |-> "idle", req |-> [header |-> NoHeader, body |-> BadJson],
     admission |-> [before |-> 0, afterReject |-> FALSE], ip |-> <<>>, keyword |-> <<>>,
     mi |-> 0, attempt |-> 0, candidate |-> NoText, bestCandidate |-> NoText,
     retries |-> 0, lastError |-> Null, response |-> NoResponse, calls |-> NoCalls,
     lastCall |-> NoCall, firstCalls |-> NoFirstCalls,
     recorded |-> [recorded EXCEPT !.texts = {}], logCalls |-> 0]

Load(c) ==
    /\ pc' = c.pc
    /\ req' = c.req
    /\ admission' = c.admission
    /\ ip' = c.ip
    /\ keyword' = c.keyword
    /\ mi' = c.mi
    /\ attempt' = c.attempt
    /\ candidate' = c.candidate
    /\ bestCandidate' = c.bestCandidate
    /\ retries' = c.retries
    /\ lastError' = c.lastError
    /\ response' = c.response
    /\ calls' = c.calls
    /\ lastCall' = c.lastCall
    /\ firstCalls' = c.firstCalls
    /\ recorded' = c.recorded
    /\ logCalls' = c.logCalls

\* the running request waits at its await (req.json() or a provider call)
\* and the event loop turns to other work
Park ==
    /\ pc \in {"body", "first", "retry"}
    /\ BagCardinality(parked) < MaxParked
    /\ parked' = parked (+) SetToBag({Context})
    /\ Load(Idle)
    /\ UNCHANGED <<rlVars, nreq, storeVars, adminVars, unionVars, nextSweep>>

\* the event loop goes back to a waiting request once no request is running
Resume(c) ==
    /\ pc \in {"idle", "done"}
    /\ BagIn(c, parked)
    /\ parked' = parked (-) SetToBag({c})
    /\ Load(c)
    /\ UNCHANGED <<rlVars, nreq, storeVars, adminVars, unionVars, nextSweep>>

----------------------------------------------------------------------------
(* The periodic clean-up of rateLimitMap *)

SweptEarly(ts, at) == SelectSeq(ts, LAMBDA t : at - t < 59999)
SweptInclusive(ts, at) == SelectSeq(ts, LAMBDA t : at - t <= 60000)
\* timestamps.filter((t) => now - t < 60_000)
Swept(ts, at) == SelectSeq(ts, LAMBDA t : at - t < 60000)

\* the setInterval callback: it runs between two steps of the requests, once
\* its delay has passed, and the timer is armed again from the time of the run
Sweep ==
    /\ now >= nextSweep
    /\ rateLimitMap' = [k \in {x \in DOMAIN rateLimitMap : Len(Swept(rateLimitMap[x], now)) # 0}
                          |-> Swept(rateLimitMap[k], now)]
    /\ nextSweep' = now + SWEEP_INTERVAL
    /\ UNCHANGED <<now, API_KEY_RAW, unswept, admissions, reqVars, storeVars, adminVars, unionVars, parked>>

----------------------------------------------------------------------------
(* The clock *)

Tick(t) ==
    /\ t > now
    /\ now' = t
    /\ admissions' = [k \in DOMAIN admissions |->
                        [admissions[k] EXCEPT !.times = Lately(@, t)]]
    /\ UNCHANGED <<API_KEY_RAW, rateLimitMap, unswept, reqVars, storeVars, adminVars, unionVars, schedVars>>

----------------------------------------------------------------------------
(* Specifications *)

NoRanking == [period |-> "", limit |-> 0, genre |-> NoGenre, date |-> 0, result |-> <<>>]

InitRequest ==
    /\ pc = "idle"
    /\ req = [header |-> NoHeader, body |-> BadJson]
    /\ admission = [before |-> 0, afterReject |-> FALSE]
    /\ ip = <<>>
    /\ keyword = <<>>
    /\ mi = 0
    /\ attempt = 0
    /\ candidate = NoText
    /\ bestCandidate = NoText
    /\ retries = 0
    /\ lastError = Null
    /\ response = NoResponse
    /\ calls = NoCalls
    /\ lastCall = NoCall
    /\ firstCalls = NoFirstCalls
    /\ recorded = NotObserved
    /\ logCalls = 0
    /\ nreq = 0

InitStore ==
    /\ pipes = EmptyBag
    /\ redis = EmptyRedis
    /\ nlog = 0
    /\ completed = {}
    /\ ranking = NoRanking
    /\ tmpKeys = <<>>
    /\ q7 = [q \in Queries |-> NoQuery]

InitAdmin ==
    /\ ADMIN_PASSWORD = <<"p">>
    /\ issued = {}
    /\ loginResponse = NoLogin
    /\ stats = NoStats

InitSched ==
    /\ parked = EmptyBag
    /\ nextSweep = SWEEP_INTERVAL

ApiKeys == {<<>>, <<" ">>, <<" ", "k", " ">>}

\* The orchestration of a request: every provider outcome, few requests.
Requests ==
    {[header |-> NoHeader, body |-> b] :
        b \in {BadJson, Body(<<" ", "a", "b", " ">>), Body(Rep("a", MAX_KEYWORD_LENGTH + 1))}}

Init ==
    /\ now = 0
    /\ API_KEY_RAW \in {<<>>, <<"k">>}
    /\ redisEnv \in BOOLEAN
    /\ rateLimitMap = <<>>
    /\ unswept = <<>>
    /\ admissions = <<>>
    /\ InitRequest
    /\ InitStore
    /\ InitAdmin
    /\ InitSched

Next ==
    \/ nreq < MaxRequests /\ \E r \in Requests : POST_Admit(r)
    \/ POST_Body
    \/ \E o \in Outcomes(<<mi, 0>>, TextLengths, FinishReasons) : FirstReply(o)
    \/ \E o \in Outcomes(<<mi, 1>>, TextLengths, FinishReasons) : RetryReply(o)
    \/ \E p \in BagToSet(pipes), ok \in BOOLEAN : PipeExec(p, ok)

Spec == Init /\ [][Next]_vars

\* The orchestration alone (no store), with what the awaits guarantee:
\* req.json() settles, and every provider call settles because fetch is
\* aborted after 20 seconds.
InitFair ==
    /\ now = 0
    /\ API_KEY_RAW = <<"k">>
    /\ redisEnv = FALSE
    /\ rateLimitMap = <<>>
    /\ unswept = <<>>
    /\ admissions = <<>>
    /\ InitRequest
    /\ InitStore
    /\ InitAdmin
    /\ InitSched

NextFair ==
    \/ nreq < MaxRequests /\ \E r \in Requests : POST_Admit(r)
    \/ POST_Body
    \/ \E o \in Outcomes(<<mi, 0>>, TextLengths, FinishReasons) : FirstReply(o)
    \/ \E o \in Outcomes(<<mi, 1>>, TextLengths, FinishReasons) : RetryReply(o)

SpecFair ==
    /\ InitFair
    /\ [][NextFair]_vars
    /\ WF_vars(POST_Body)
    /\ WF_vars(\E o \in Outcomes(<<mi, 0>>, TextLengths, FinishReasons) : FirstReply(o))
    /\ WF_vars(\E o \in Outcomes(<<mi, 1>>, TextLengths, FinishReasons) : RetryReply(o))

\* The orchestration with the recorded candidates observed.
InitCand ==
    /\ now = 0
    /\ API_KEY_RAW = <<"k">>
    /\ redisEnv = FALSE
    /\ rateLimitMap = <<>>
    /\ unswept = <<>>
    /\ admissions = <<>>
    /\ pc = "idle"
    /\ req = [header |-> NoHeader, body |-> BadJson]
    /\ admission = [before |-> 0, afterReject |-> FALSE]
    /\ ip = <<>>
    /\ keyword = <<>>
    /\ mi = 0
    /\ attempt = 0
    /\ candidate = NoText
    /\ bestCandidate = NoText
    /\ retries = 0
    /\ lastError = Null
    /\ response = NoResponse
    /\ calls = NoCalls
    /\ lastCall = NoCall
    /\ firstCalls = NoFirstCalls
    /\ recorded = Observed
    /\ logCalls = 0
    /\ nreq = 0
    /\ InitStore
    /\ InitAdmin
    /\ InitSched

NextCand ==
    \/ nreq < MaxRequests /\ \E r \in Requests : POST_Admit(r)
    \/ POST_Body
    \/ \E o \in Outcomes(<<mi, 0>>, TextLengths, FinishReasons) : FirstReply(o)
    \/ \E o \in Outcomes(<<mi, 1>>, TextLengths, FinishReasons) : RetryReply(o)

SpecCand == InitCand /\ [][NextCand]_vars

\* Concurrent requests of two addresses at one instant.
HeadersConc == {<<<<"1">>>>, <<<<"2">>, <<"1">>>>}
RequestsConc == {[header |-> h, body |-> Body(<<"a">>)] : h \in HeadersConc}

KeysConc == {ClientIp(h) : h \in HeadersConc}

\* eight requests of each address were admitted at time 0, one after the other
AdmittedBefore == Rep(0, RATE_LIMIT_PER_MINUTE - 2)

InitConc ==
    /\ now = 0
    /\ API_KEY_RAW = <<"k">>
    /\ redisEnv = FALSE
    /\ rateLimitMap = [k \in KeysConc |-> AdmittedBefore]
    /\ unswept = [k \in KeysConc |-> AdmittedBefore]
    /\ admissions = [k \in KeysConc |-> [times |-> AdmittedBefore, rejected |-> FALSE]]
    /\ InitRequest
    /\ InitStore
    /\ InitAdmin
    /\ InitSched

NextConc ==
    \/ Tick(windowMs - 1)
    \/ \E r \in RequestsConc : POST_Admit(r)
    \/ POST_Body
    \/ FirstReply(Http(200, Data(Txt(85, <<mi, 0>>), "STOP")))
    \/ Park
    \/ \E c \in BagToSet(parked) : Resume(c)

SpecConc == InitConc /\ [][NextConc]_vars

\* The clean-up: requests of two addresses around the first run of the timer,
\* with the clock at the start, 60 seconds and 59.999 seconds before the run,
\* and at the run.
TimesSweep == {0, SWEEP_INTERVAL - 60000, SWEEP_INTERVAL - 59999, SWEEP_INTERVAL}
RequestsSweep == {[header |-> h, body |-> BadJson] : h \in HeadersConc}

InitSweep ==
    /\ now = 0
    /\ API_KEY_RAW = <<"k">>
    /\ redisEnv = FALSE
    /\ rateLimitMap = <<>>
    /\ unswept = <<>>
    /\ admissions = <<>>
    /\ InitRequest
    /\ InitStore
    /\ InitAdmin
    /\ InitSched

NextSweep ==
    \/ \E t \in TimesSweep : Tick(t)
    \/ \E r \in RequestsSweep :
          /\ Len(Timestamps(ClientIp(r.header))) < MaxStored
          /\ POST_Admit(r)
    \/ POST_Body
    \/ Sweep

\* time passes, and the timer's callback runs once it is due
SpecSweep ==
    /\ InitSweep
    /\ [][NextSweep]_vars
    /\ WF_vars(\E t \in TimesSweep : Tick(t))
    /\ WF_vars(Sweep)

\* The completion metadata: every call is answered with a text, of a length in
\* or out of range, and a finishReason the code tests for ("MAX_TOKENS"), one
\* it does not ("STOP", "SAFETY"), or none.
FinishSignals == {"STOP", "MAX_TOKENS", "SAFETY", Null}
SignalLengths == {85, 101}
SignalReplies(k) ==
    {Http(200, Data(Txt(n, <<mi, k>>), f)) : n \in SignalLengths, f \in FinishSignals}
RequestsSignal == {[header |-> <<<<"1">>>>, body |-> Body(<<"a">>)]}

InitSignal ==
    /\ now = 0
    /\ API_KEY_RAW = <<"k">>
    /\ redisEnv = FALSE
    /\ rateLimitMap = <<>>
    /\ unswept = <<>>
    /\ admissions = <<>>
    /\ InitRequest
    /\ InitStore
    /\ InitAdmin
    /\ InitSched

NextSignal ==
    \/ nreq < MaxRequests /\ \E r \in RequestsSignal : POST_Admit(r)
    \/ POST_Body
    \/ \E o \in SignalReplies(0) : FirstReply(o)
    \/ \E o \in SignalReplies(1) : RetryReply(o)

SpecSignal == InitSignal /\ [][NextSignal]_vars

\* The clean-up between the requests of two addresses: the timer was started
\* at an unknown time before the first request, so its first run may come at
\* any time of the clock, which stands at the first request, 59.999 seconds
\* and 60 seconds later.
TimesTransparent == {0, windowMs - 1, windowMs}
RequestsTransparent == {[header |-> h, body |-> BadJson] : h \in HeadersConc}

InitTransparent ==
    /\ now = 0
    /\ API_KEY_RAW = <<"k">>
    /\ redisEnv = FALSE
    /\ rateLimitMap = <<>>
    /\ unswept = <<>>
    /\ admissions = <<>>
    /\ InitRequest
    /\ InitStore
    /\ InitAdmin
    /\ parked = EmptyBag
    /\ nextSweep \in TimesTransparent

NextTransparent ==
    \/ \E t \in TimesTransparent : Tick(t)
    \/ \E r \in RequestsTransparent : POST_Admit(r)
    \/ POST_Body
    \/ Sweep

SpecTransparent == InitTransparent /\ [][NextTransparent]_vars

\* The 7-day ranking: keywords are logged on two days, and two queries run
\* on the second day, in the same millisecond or one millisecond apart.
TimesUnion == {MsPerDay, MsPerDay + 1}
KeywordsUnion == {<<"a">>}

InitUnion ==
    /\ now = 0
    /\ API_KEY_RAW = <<"k">>
    /\ redisEnv = TRUE
    /\ rateLimitMap = <<>>
    /\ unswept = <<>>
    /\ admissions = <<>>
    /\ InitRequest
    /\ InitStore
    /\ InitAdmin
    /\ InitSched

NextUnion ==
    \/ \E t \in TimesUnion : Tick(t)
    \/ \E k \in KeywordsUnion : LogKeyword(k)
    \/ \E p \in BagToSet(pipes) : PipeExec(p, TRUE)
    \/ \E q \in Queries : Q_Start(q)
    \/ \E q \in Queries : Q_Exists(q)
    \/ \E q \in Queries : Q_ZUnionStore(q)
    \/ \E q \in Queries : Q_ZRange(q)
    \/ \E q \in Queries : Q_Del(q)
    \/ \E q \in Queries : Q_Return(q)
    \/ \E q \in Queries : Q_Throw(q)

SpecUnion == InitUnion /\ [][NextUnion]_vars

\* The rate limiter over time: many requests, few provider outcomes.
Times == {e * windowMs + d : e \in 0..MaxEpoch, d \in {0, windowMs - 1}}

Headers == {<<<<" ", "1", " ">>, <<"2">>>>}

Bodies == {BadJson, Body(<<" ">>),
           Body(<<" ">> \o Rep("a", MAX_KEYWORD_LENGTH) \o <<" ">>),
           Body(Rep("a", MAX_KEYWORD_LENGTH + 1))}

RequestsRL == {[header |-> h, body |-> b] : h \in Headers, b \in Bodies}

InitRL ==
    /\ now = 0
    /\ API_KEY_RAW \in ApiKeys
    /\ redisEnv = FALSE
    /\ rateLimitMap = <<>>
    /\ unswept = <<>>
    /\ admissions = <<>>
    /\ InitRequest
    /\ InitStore
    /\ InitAdmin
    /\ InitSched

NextRL ==
    \/ \E t \in Times : Tick(t)
    \/ \E r \in RequestsRL : POST_Admit(r)
    \/ POST_Body
    \/ \E o \in Outcomes(<<mi, 0>>, {85}, {"STOP"}) : FirstReply(o)

SpecRL == InitRL /\ [][NextRL]_vars

\* The keyword log: direct calls of logKeyword and getKeywordRanking over days.
Keywords == {<<" ", "a">>, <<"b">>, <<" ">>}
Midnights == {MsPerDay}
QueryLimits == {1, DEFAULT_LIMIT}
Genres == {"food", "other"}

InitLog ==
    /\ now = 0
    /\ API_KEY_RAW = <<"k">>
    /\ redisEnv \in BOOLEAN
    /\ rateLimitMap = <<>>
    /\ unswept = <<>>
    /\ admissions = <<>>
    /\ InitRequest
    /\ InitStore
    /\ InitAdmin
    /\ InitSched

NextLog ==
    \/ \E t \in Midnights : Tick(t)
    \/ \E k \in Keywords : LogKeyword(k)
    \/ \E p \in BagToSet(pipes), ok \in BOOLEAN : PipeExec(p, ok)
    \/ \E period \in {"all", "today"}, limit \in QueryLimits,
          genre \in Genres \cup {NoGenre}, ok \in BOOLEAN :
            GetKeywordRanking(period, limit, genre, ok)
    \/ \E limit \in QueryLimits, genre \in Genres, ok \in BOOLEAN :
            GetKeywordRanking("7days", limit, genre, ok)

SpecLog == InitLog /\ [][NextLog]_vars

\* The admin endpoints over a store that holds logged keywords.
AdminTimes == {1000, 2000}
LoginBodies == {BadLogin, LoginBody(<<>>), LoginBody(<<"x">>), LoginBody(<<"p">>)}
Cookies == {NoCookie, <<"x">>, Token(<<"p">>, 7)}

InitAdminSpec ==
    /\ now = 0
    /\ API_KEY_RAW = <<"k">>
    /\ redisEnv = TRUE
    /\ rateLimitMap = <<>>
    /\ unswept = <<>>
    /\ admissions = <<>>
    /\ InitRequest
    /\ InitStore
    /\ ADMIN_PASSWORD \in {<<>>, <<"p">>}
    /\ issued = {}
    /\ loginResponse = NoLogin
    /\ stats = NoStats
    /\ InitSched

NextAdmin ==
    \/ \E t \in AdminTimes : Tick(t)
    \/ \E b \in LoginBodies : AdminLogin(b)
    \/ \E c \in Cookies \cup issued, period \in {"all", "today"}, ok \in BOOLEAN :
          GET(c, period, NoGenre, ok)
    \/ \E k \in {<<"a">>, <<"b">>} : LogKeyword(k)
    \/ \E p \in BagToSet(pipes) : PipeExec(p, TRUE)

SpecAdmin == InitAdminSpec /\ [][NextAdmin]_vars

----------------------------------------------------------------------------
(* Properties of the generate endpoint *)

InRange(text) == text.len \in 70..100

\* C1: a success response carries a text of 70 to 100 characters, or it is
\* tagged model = "fallback" and its text has at least 10 characters; a
\* response that names a model configuration always carries 70 to 100
\* characters.  Only requests with a trimmed keyword of 1 to 30 characters
\* end in success.
C1_SuccessLength ==
    response.status = 200 =>
        /\ Len(keyword) \in 1..30
        /\ \/ InRange(response.trivia)
           \/ response.model = "fallback" /\ response.trivia.len >= 10
        /\ response.model \in ModelNames \cup {"fallback"}
        /\ response.model \in ModelNames => InRange(response.trivia)

\* a fallback answer outside the range, after correction calls were made
C1_Witness ==
    /\ pc = "done"
    /\ response.status = 200
    /\ response.model = "fallback"
    /\ ~InRange(response.trivia)
    /\ response.retries > 0

BadKeyword(body) ==
    /\ body.parsed
    /\ body.isString
    /\ Trim(body.keyword) = <<>> \/ Len(Trim(body.keyword)) > 30

\* C2 as stated, for a deployment whose API key is configured: every request
\* whose keyword is empty after trimming or longer than 30 characters is
\* answered validation_error (400) without a provider call, whatever requests
\* came before.
C2_Original ==
    pc = "done" /\ API_KEY # <<>> /\ BadKeyword(req.body) =>
        /\ response.code = "validation_error"
        /\ response.status = 400
        /\ calls.total = 0

\* C2 amended: such a request makes no provider call; it is answered
\* validation_error (400) when it is admitted, that is when the API key is
\* configured and fewer than 10 requests of its address were admitted in the
\* last 60 seconds; otherwise it is answered config_error or rate_limited.
C2_Validation ==
    pc = "done" /\ BadKeyword(req.body) =>
        /\ calls.total = 0
        /\ IF API_KEY = <<>> THEN response.code = "config_error"
           ELSE IF admission.before >= 10 THEN response.code = "rate_limited"
           ELSE response.code = "validation_error" /\ response.status = 400

\* an over-long keyword rejected by validation after earlier requests
C2_Witness ==
    /\ pc = "done"
    /\ Len(Trim(req.body.keyword)) > 30
    /\ response.code = "validation_error"
    /\ admission.before > 0

\* C3: no address has more than 10 requests admitted within any 60 seconds:
\* a request that arrives when 10 requests of its address were admitted less
\* than 60 seconds ago is answered rate_limited (429) without a provider call.
C3_RateLimit ==
    /\ \A key \in DOMAIN admissions : Len(Lately(admissions[key].times, now)) <= 10
    /\ pc # "idle" /\ admission.before >= 10 =>
        /\ pc = "done"
        /\ response.code = "rate_limited"
        /\ response.status = 429
        /\ calls.total = 0

\* the eleventh request inside the window of ten admitted ones, the first of
\* them admitted 59999 ms before
C3_Witness ==
    /\ pc = "done"
    /\ response.code = "rate_limited"
    /\ admission.before = 10
    /\ now - Admissions(ip).times[1] = 59999

\* C4: a request of an address with 10 recorded timestamps, the oldest of them
\* 60 seconds old or older, is admitted, however many requests were rejected
\* before it.
C4_Readmitted ==
    [][\A r \in RequestsRL :
          LET ts == Timestamps(ClientIp(r.header))
          IN  /\ POST_Admit(r)
              /\ Len(ts) = RATE_LIMIT_PER_MINUTE
              /\ now - ts[1] >= 60000
              => pc' = "body" /\ response' = NoResponse]_vars

\* a request admitted exactly 60 seconds after the oldest of ten timestamps,
\* after a request of the address was rejected
C4_Witness ==
    /\ pc = "body"
    /\ admission.afterReject
    /\ Len(rateLimitMap[ip]) = RATE_LIMIT_PER_MINUTE
    /\ rateLimitMap[ip][1] = 1 * (windowMs - 1)
    /\ now = 2 * windowMs - 1

\* C5: when the k-th correction call of a configuration (k <= 3) returns a
\* text that is not truncated and has 70 to 100 characters, that text is the
\* answer, the configuration is reported as the model, and for the first
\* configuration the reported count of correction attempts is k.
C5_CorrectionAccepted ==
    /\ lastCall.k >= 1
    /\ ~lastCall.result.threw
    /\ lastCall.result.finishReason # "MAX_TOKENS"
    /\ InRange(lastCall.result.text)
    => /\ lastCall.k <= 3
       /\ pc = "done"
       /\ response.status = 200
       /\ response.trivia = lastCall.result.text
       /\ response.model = MODEL_CONFIGS[lastCall.m].name
       /\ response.retries >= lastCall.k
       /\ lastCall.m = 1 => response.retries = lastCall.k

\* the third correction call of the first configuration is the one accepted
C5_Witness ==
    /\ pc = "done"
    /\ lastCall.m = 1
    /\ lastCall.k = 3
    /\ response.status = 200
    /\ response.model = MODEL_CONFIGS[1].name
    /\ response.retries = 3
    /\ response.trivia = lastCall.result.text

\* C6: when the first call of every configuration is reported truncated
\* (MAX_TOKENS), every configuration is tried once, and the request ends with
\* the fallback answer, the (first) longest truncated text, when that text has
\* at least 10 characters, and with generation_failed otherwise; the answer is
\* never attributed to a model configuration.
C6_AllTruncated ==
    pc = "done" /\ firstCalls.n >= 1 /\ firstCalls.onlyTruncated =>
        /\ firstCalls.n = NumModels
        /\ calls.total = NumModels
        /\ response.model \notin ModelNames
        /\ IF \E t \in firstCalls.texts : t.len >= 10
           THEN /\ response.status = 200
                /\ response.model = "fallback"
                /\ response.trivia \in firstCalls.texts
                /\ \A t \in firstCalls.texts :
                      \/ t.len < response.trivia.len
                      \/ t.len = response.trivia.len /\ t.id[1] >= response.trivia.id[1]
           ELSE /\ response.code = "generation_failed"
                /\ response.status = 500

\* every first call truncated, one of the texts of 70 to 100 characters
C6_Witness ==
    /\ pc = "done"
    /\ firstCalls.n = NumModels
    /\ firstCalls.onlyTruncated
    /\ \E t \in firstCalls.texts : InRange(t)
    /\ response.model = "fallback"
    /\ InRange(response.trivia)

\* C7: when the first call of every configuration is answered 404, the request
\* ends with generation_failed (500) after exactly one call per configuration:
\* no correction call is made and the count of correction attempts stays 0.
C7_AllNotFound ==
    pc = "done" /\ firstCalls.n >= 1 /\ firstCalls.onlyNotFound =>
        /\ firstCalls.n = NumModels
        /\ calls.total = NumModels
        /\ retries = 0
        /\ response.code = "generation_failed"
        /\ response.status = 500
        /\ response.retries = 0

\* all three configurations answered 404
C7_Witness ==
    /\ pc = "done"
    /\ firstCalls.n = NumModels
    /\ firstCalls.onlyNotFound
    /\ response.code = "generation_failed"

\* the last provider call raised an error or gave no text (and was no 404)
CallFailed ==
    /\ lastCall.m >= 1
    /\ \/ lastCall.result.threw
       \/ IsFalsy(lastCall.result.text) /\ lastCall.result.finishReason # "NOT_FOUND"

\* C8 as stated: an error of a provider call ends the attempt of its
\* configuration only, the next configuration is tried; and generation_failed
\* (500) is returned only after every configuration was tried and no answer,
\* in range or fallback, is available.
C8_Original ==
    /\ CallFailed =>
          IF lastCall.m < NumModels THEN pc = "first" /\ mi = lastCall.m + 1
          ELSE pc = "done"
    /\ response.code = "generation_failed" =>
          /\ firstCalls.n = NumModels
          /\ IsFalsy(bestCandidate) \/ bestCandidate.len < 10

\* the first half of C8 alone: errors of provider calls are recovered by
\* going on to the next configuration; and a generation_failed response after
\* a provider call comes only when every configuration was tried
C8_Escalation ==
    /\ CallFailed =>
          IF lastCall.m < NumModels THEN pc = "first" /\ mi = lastCall.m + 1
          ELSE pc = "done"
    /\ response.code = "generation_failed" /\ calls.total > 0 =>
          /\ firstCalls.n = NumModels
          /\ IsFalsy(bestCandidate) \/ bestCandidate.len < 10

\* C9: logKeyword is called exactly once by a request that ends in a success
\* response and never by a request that ends in an error response; the step that
\* produces the success response leaves the store as it is, the write being
\* still pending; and the completion of a write, successful or failed, leaves
\* the response as it is.
C9_LoggedOnce ==
    /\ [](logCalls = IF pc = "done" /\ response.status = 200 THEN 1 ELSE 0)
    /\ [][response' # response /\ response'.status = 200 =>
            /\ redis' = redis
            /\ IF redisEnv
               THEN pipes' = pipes (+) SetToBag({Pipeline(keyword)})
               ELSE pipes' = pipes]_vars
    /\ [][redis' # redis \/ BagCardinality(pipes') < BagCardinality(pipes) =>
            response' = response /\ pc' = pc /\ logCalls' = logCalls]_vars

\* a success response whose write to the store failed
C9_Witness ==
    /\ pc = "done"
    /\ response.status = 200
    /\ logCalls = 1
    /\ redis = EmptyRedis
    /\ \E c \in completed : c.keyword = keyword /\ ~c.wrote
    /\ pipes = EmptyBag

\* C12: the configurations are tried one after another in the order of
\* MODEL_CONFIGS with at most one provider call in flight: a call is sent only
\* when the one before it was answered, the first call of configuration i + 1
\* only when the attempt of configuration i ended without acceptance, a
\* correction call only to the configuration being tried; and once a text is
\* accepted no further call is made.
C12_InOrder ==
    /\ [](/\ pc = "first" =>
                /\ firstCalls.n = mi - 1
                /\ lastCall.m = mi - 1
                /\ calls.cfg = 1
          /\ pc = "retry" =>
                /\ firstCalls.n = mi
                /\ lastCall.m = mi
                /\ calls.cfg = lastCall.k + 2
          /\ pc = "done" /\ calls.total > 0 =>
                /\ firstCalls.n = mi
                /\ lastCall.m = mi
                /\ calls.cfg = lastCall.k + 1
          /\ pc = "done" /\ response.model \in ModelNames =>
                /\ response.model = MODEL_CONFIGS[mi].name
                /\ response.trivia = lastCall.result.text)
    /\ [][calls'.total > calls.total =>
            /\ calls'.total = calls.total + 1
            /\ pc \in {"body", "first", "retry"}
            /\ pc' \in {"first", "retry"}
            /\ pc = "body" => pc' = "first" /\ mi' = 1
            /\ pc # "body" /\ pc' = "first" => mi' = mi + 1 /\ response' = NoResponse
            /\ pc' = "retry" => mi' = mi /\ pc # "body"]_vars

\* the third configuration is the one accepted, after correction calls
C12_Witness ==
    /\ pc = "done"
    /\ response.model = MODEL_CONFIGS[NumModels].name
    /\ firstCalls.n = NumModels
    /\ calls.total > NumModels
    /\ lastCall.k > 0

\* C13: every admitted request ends with a response, after at most one first
\* call and three correction calls per configuration, hence at most
\* 4 * NumModels provider calls, whatever the provider returns.
C13_Terminates ==
    /\ [](/\ calls.cfg <= 1 + MAX_CORRECTIONS
          /\ calls.total <= (1 + MAX_CORRECTIONS) * NumModels
          /\ mi >= 1 => calls.total <= (1 + MAX_CORRECTIONS) * (mi - 1) + calls.cfg
          /\ retries <= MAX_CORRECTIONS * NumModels)
    /\ (pc = "body" ~> pc = "done" /\ response # NoResponse)

\* a request answered after twelve provider calls
C13_Witness ==
    /\ pc = "done"
    /\ response # NoResponse
    /\ calls.total = (1 + MAX_CORRECTIONS) * NumModels

\* the step in which a first call is answered with a text and MAX_TOKENS
TruncatedFirstReply ==
    /\ pc = "first"
    /\ lastCall' # lastCall
    /\ lastCall'.k = 0
    /\ lastCall'.result.finishReason = "MAX_TOKENS"
    /\ ~IsFalsy(lastCall'.result.text)

\* C14: when the first call of a configuration returns a text reported
\* truncated, no correction call is made to that configuration: the text
\* becomes the fallback candidate exactly when there is none or it is strictly
\* longer than the current one, the count of corrections stays as it is, and
\* the next configuration is tried (or, after the last one, the request ends).
C14_TruncatedFirst ==
    [][TruncatedFirstReply =>
          /\ bestCandidate' =
                IF IsFalsy(bestCandidate)
                   \/ lastCall'.result.text.len > bestCandidate.len
                THEN lastCall'.result.text ELSE bestCandidate
          /\ retries' = retries
          /\ calls.cfg = 1
          /\ IF mi < NumModels
             THEN pc' = "first" /\ mi' = mi + 1 /\ calls'.cfg = 1
             ELSE pc' = "done" /\ calls' = calls]_vars

\* a truncated text as long as the fallback candidate did not replace it
C14_Witness ==
    /\ pc = "first"
    /\ lastCall.k = 0
    /\ lastCall.result.finishReason = "MAX_TOKENS"
    /\ ~IsFalsy(lastCall.result.text)
    /\ bestCandidate # lastCall.result.text
    /\ bestCandidate.len = lastCall.result.text.len

\* the step in which a correction call is answered
CorrectionReply == pc = "retry" /\ lastCall' # lastCall /\ ~lastCall'.result.threw

\* the configuration being tried is given up: the next one gets its first
\* call, or the request ends with the fallback candidate or in failure
Escalated ==
    IF mi < NumModels
    THEN pc' = "first" /\ mi' = mi + 1
    ELSE /\ pc' = "done"
         /\ calls' = calls
         /\ response'.model \notin ModelNames
         /\ response'.trivia = IF bestCandidate'.len >= 10 THEN bestCandidate' ELSE NoText

\* C15: a correction call that returns no text or a truncated one ends the
\* loop of its configuration: the fallback candidate stays as it is, the
\* result is not used as candidate (the configuration is escalated even if
\* the truncated text has 70 to 100 characters) and no further call goes to
\* the configuration.  A correction call that returns a text that is not
\* truncated updates the fallback candidate when the text is strictly longer,
\* and the text is the candidate: it is accepted when in range, corrected
\* again when not and fewer than three corrections were made, and otherwise
\* the configuration is escalated.
C15_CorrectionLoop ==
    [][CorrectionReply =>
          LET res == lastCall'.result
          IN  IF IsFalsy(res.text) \/ res.finishReason = "MAX_TOKENS"
              THEN /\ bestCandidate' = bestCandidate
                   /\ retries' = retries
                   /\ Escalated
              ELSE /\ bestCandidate' = IF res.text.len > bestCandidate.len
                                       THEN res.text ELSE bestCandidate
                   /\ IF InRange(res.text)
                      THEN /\ pc' = "done"
                           /\ response'.trivia = res.text
                           /\ response'.model = MODEL_CONFIGS[mi].name
                      ELSE IF lastCall'.k < 3
                      THEN /\ pc' = "retry"
                           /\ mi' = mi
                           /\ candidate' = res.text
                           /\ retries' = retries + 1
                      ELSE retries' = retries /\ Escalated]_vars

\* a truncated correction text of 70 to 100 characters, longer than the
\* fallback candidate, was not used: the next configuration is being tried
C15_Witness ==
    /\ pc = "first"
    /\ lastCall.k >= 1
    /\ lastCall.result.finishReason = "MAX_TOKENS"
    /\ InRange(lastCall.result.text)
    /\ bestCandidate.len < lastCall.result.text.len

\* the text recorded first among texts: by configuration, the first call of
\* a configuration before its corrections
Earliest(texts) ==
    CHOOSE t \in texts :
        \A u \in texts \ {t} :
            t.id[1] < u.id[1] \/ (t.id[1] = u.id[1] /\ t.id[2] < u.id[2])

\* C16: the fallback candidate is the longest of the texts the request
\* recorded (first-call texts, truncated or not, and correction texts that
\* are not truncated), the earliest of them among equal lengths; when every
\* configuration was tried without an acceptance the request succeeds with
\* that text, tagged fallback, if and only if it exists and has at least 10
\* characters, and fails with generation_failed otherwise.
C16_Fallback ==
    /\ bestCandidate = IF recorded.texts = {} THEN NoText ELSE Earliest(recorded.texts)
    /\ pc = "done" /\ calls.total > 0 /\ response.model \notin ModelNames =>
          /\ firstCalls.n = NumModels
          /\ IF recorded.texts # {} /\ Earliest(recorded.texts).len >= 10
             THEN /\ response.status = 200
                  /\ response.model = "fallback"
                  /\ response.trivia = Earliest(recorded.texts)
             ELSE /\ response.status = 500
                  /\ response.code = "generation_failed"

\* a fallback answer of exactly 10 characters, the earliest of several
\* recorded texts of that length, the last of them from a correction call
C16_Witness ==
    /\ pc = "done"
    /\ response.model = "fallback"
    /\ response.trivia.len = 10
    /\ Cardinality(recorded.texts) >= 3
    /\ lastCall.k >= 1
    /\ lastCall.result.text \in recorded.texts
    /\ lastCall.result.text # response.trivia

\* C17: a rejected request is not recorded: the timestamps of its address
\* that lie inside the 60 seconds before now are the same after the rejection
\* as before (in fact the whole list is, all ten being inside the window), so
\* the time at which the address is admitted again does not move; and the
\* list stored for an address never has more than 10 timestamps.
C17_RejectNotRecorded ==
    /\ [](\A key \in DOMAIN rateLimitMap : Len(rateLimitMap[key]) <= 10)
    /\ [][\A r \in RequestsRL :
            POST_Admit(r) /\ response'.code = "rate_limited" =>
                LET key == ClientIp(r.header)
                IN  /\ rateLimitMap'[key] = Lately(Timestamps(key), now)
                    /\ rateLimitMap'[key] = rateLimitMap[key]
                    /\ Len(rateLimitMap'[key]) = 10
                    /\ rateLimitMap'[key][1] = Lately(Timestamps(key), now)[1]
                    /\ \A other \in DOMAIN rateLimitMap \ {key} :
                          rateLimitMap'[other] = rateLimitMap[other]]_vars

\* a second rejection in a row, the ten timestamps of the address spread
\* over the window
C17_Witness ==
    /\ pc = "done"
    /\ response.code = "rate_limited"
    /\ Len(rateLimitMap[ip]) = 10
    /\ now - rateLimitMap[ip][1] < 60000
    /\ now - rateLimitMap[ip][10] > 0
    /\ admission.afterReject

\* C18: however the requests interleave at their awaits, the admission of a
\* request is decided in one step: an address never has more than 10 requests
\* admitted within 60 seconds, a request is admitted exactly when fewer than
\* 10 requests of its address were admitted in the last 60 seconds, the
\* decision leaves the timestamps and the outcome of every other address as
\* they were, and no other step of a request touches the timestamps.
C18_AtomicAdmission ==
    /\ [](\A key \in DOMAIN admissions : Len(Lately(admissions[key].times, now)) <= 10)
    /\ [][/\ \A r \in RequestsConc :
               POST_Admit(r) =>
                  /\ (pc' = "body") <=>
                        Len(Lately(Admissions(ClientIp(r.header)).times, now)) < 10
                  /\ \A k \in KeysConc \ {ClientIp(r.header)} :
                        /\ Timestamps(k)' = Timestamps(k)
                        /\ isRateLimited(k)' = isRateLimited(k)
          /\ (~ \E r \in RequestsConc : POST_Admit(r)) => rateLimitMap' = rateLimitMap]_vars

\* the eleventh request of an address is rejected while an admitted request of
\* the same address and none of the other address waits at an await
C18_Witness ==
    /\ pc = "done"
    /\ response.code = "rate_limited"
    /\ admission.before = 10
    /\ \E c \in BagToSet(parked) : c.ip = ip /\ c.pc \in {"body", "first"}
    /\ \E k \in KeysConc \ {ip} : Len(rateLimitMap[k]) < RATE_LIMIT_PER_MINUTE

\* an address whose stored timestamps are all 60 seconds old or older
Stale(key) ==
    /\ key \in DOMAIN rateLimitMap
    /\ \A i \in 1..Len(rateLimitMap[key]) : now - rateLimitMap[key][i] >= 60000

\* C19: a run of the periodic clean-up removes exactly the addresses that have
\* no timestamp of the last 60 seconds and keeps, for each other address, its
\* timestamps of the last 60 seconds and only them; an address whose
\* timestamps are all 60 seconds old is removed in the end unless a request of
\* it arrives first; and no address is ever stored with an empty list.
C19_Sweep ==
    /\ [](\A key \in DOMAIN rateLimitMap : Len(rateLimitMap[key]) > 0)
    /\ [][Sweep =>
            /\ DOMAIN rateLimitMap' =
                  {k \in DOMAIN rateLimitMap :
                      \E i \in 1..Len(rateLimitMap[k]) : now - rateLimitMap[k][i] < 60000}
            /\ \A k \in DOMAIN rateLimitMap' :
                  rateLimitMap'[k] =
                      SelectSeq(rateLimitMap[k], LAMBDA t : now - t < 60000)]_vars
    /\ \A key \in KeysConc : Stale(key) ~> ~Stale(key)

\* after the run at 300000 ms: one address, last seen 60 seconds before, is
\* gone, and the other one keeps its timestamp of 59.999 seconds before
C19_Witness ==
    /\ nextSweep = 2 * SWEEP_INTERVAL
    /\ \E gone \in DOMAIN admissions, kept \in DOMAIN rateLimitMap :
          /\ gone \notin DOMAIN rateLimitMap
          /\ rateLimitMap[kept] = <<SWEEP_INTERVAL - 59999>>

\* the call in flight is answered with a text and the finishReason f
Replied(o) == FirstReply(o) \/ RetryReply(o)

C21_CheckOrder ==
    /\ [][\A r \in RequestsRL :
            POST_Admit(r) =>
               LET key == ClientIp(r.header)
                   recent == SelectSeq(Timestamps(key), LAMBDA t : now - t < 60000)
               IN  IF Trim(API_KEY_RAW) = <<>>
                   THEN /\ pc' = "done"
                        /\ response'.code = "config_error"
                        /\ rateLimitMap' = rateLimitMap
                   ELSE IF Len(recent) >= 10
                   THEN /\ pc' = "done"
                        /\ response'.code = "rate_limited"
                        /\ rateLimitMap'[key] = recent
                   ELSE /\ pc' = "body"
                        /\ rateLimitMap'[key] = Append(recent, now)]_vars
    /\ [][pc = "body" /\ pc' = "done" =>
            /\ response'.code \in {"validation_error", "generation_failed"}
            /\ calls'.total = 0
            /\ rateLimitMap' = rateLimitMap
            /\ Len(rateLimitMap[ip]) >= 1
            /\ admission.before < 10
            /\ Len(Lately(Admissions(ip).times, now)) <= Len(rateLimitMap[ip])]_vars

\* the tenth slot of an address was taken by a request that was then answered
\* with a validation error
C21_Witness ==
    /\ pc = "done"
    /\ response.code = "validation_error"
    /\ admission.before = 9
    /\ Len(rateLimitMap[ip]) = RATE_LIMIT_PER_MINUTE
    /\ rateLimitMap[ip][RATE_LIMIT_PER_MINUTE] = now

\* C22: the retries of a success response is the number of correction calls
\* of the request, those of all configurations tried and whatever they
\* returned: the calls made less the first calls.  It is between 0 and 3 times
\* the number of configurations.
C22_RetriesTotal ==
    pc = "done" /\ response.status = 200 =>
        /\ response.retries = calls.total - firstCalls.n
        /\ response.retries >= 0
        /\ response.retries <= 3 * NumModels

\* the answer is the text of the first call of the second configuration, and
\* the response reports the three corrections of the first one
C22_Witness ==
    /\ pc = "done"
    /\ response.status = 200
    /\ lastCall.m = 2
    /\ lastCall.k = 0
    /\ response.trivia = lastCall.result.text
    /\ response.model = MODEL_CONFIGS[2].name
    /\ response.retries = 3

\* C23: the clean-up does not change any admission: whenever it runs, every
\* request is admitted or rejected as it would be had the clean-up never run,
\* because the Map with and the Map without the clean-up hold the same
\* timestamps of the last 60 seconds for every address.
C23_SweepTransparent ==
    /\ [](\A key \in DOMAIN unswept :
            SelectSeq(Timestamps(key), LAMBDA t : now - t < 60000)
              = SelectSeq(unswept[key], LAMBDA t : now - t < 60000))
    /\ [][\A r \in RequestsTransparent :
            POST_Admit(r) =>
               /\ isRateLimited(ClientIp(r.header)) <=> isRateLimitedUnswept(ClientIp(r.header))
               /\ (pc' = "body") <=> ~isRateLimitedUnswept(ClientIp(r.header))]_vars

\* the clean-up has run and dropped an address that the Map without clean-up
\* still holds, and a request of the other address was rejected after it
C23_Witness ==
    /\ pc = "done"
    /\ response.code = "rate_limited"
    /\ nextSweep > SWEEP_INTERVAL
    /\ DOMAIN rateLimitMap # DOMAIN unswept
    /\ now = windowMs
    /\ ip \in DOMAIN rateLimitMap
    /\ rateLimitMap[ip][1] = windowMs - 1

----------------------------------------------------------------------------
(* Properties of the keyword log *)

\* the number of members of z that a reversed range lists before k
Rank(z, k) == Cardinality({x \in DOMAIN z : Above(z, x, k)})

Listed(result, k) ==
    \E i \in 1..Len(result) : result[i].keyword = k /\ result[i].count >= 1

\* C10 as stated, for a configured store whose reads succeed: once
\* logKeyword(k) has completed for a keyword k that is not empty after
\* trimming, getKeywordRanking("today") without a genre returns a list that
\* holds (the trimmed) k with a count of at least 1.
C10_Original ==
    [][\A c \in completed :
          /\ redisEnv
          /\ Trim(c.keyword) # <<>>
          /\ GetKeywordRanking("today", DEFAULT_LIMIT, NoGenre, TRUE)
          => Listed(ranking'.result, Trim(c.keyword))]_vars

\* C10 amended: when the write of logKeyword(k) succeeded and the ranking of
\* "today" is read on the date of the write, the trimmed keyword is in the
\* daily set, and the list returned for a limit holds it with a count of at
\* least 1 exactly when fewer than limit keywords of the day rank before it
\* (higher count, or equal count and a greater member); so it is listed
\* whenever the day has at most limit keywords.
C10_RoundTrip ==
    [][\A c \in completed, limit \in QueryLimits :
          /\ c.wrote
          /\ c.date = todayKey
          /\ GetKeywordRanking("today", limit, NoGenre, TRUE)
          => LET z == DailySet(redis, todayKey)
                 k == Trim(c.keyword)
             IN  /\ k \in DOMAIN z
                 /\ Listed(ranking'.result, k) <=> Rank(z, k) < limit
                 /\ Cardinality(DOMAIN z) <= limit => Listed(ranking'.result, k)
                 /\ Len(ranking'.result) <= limit]_vars

\* a keyword logged with surrounding blanks is listed, trimmed, in today's
\* ranking next to another keyword of the day
C10_Witness ==
    /\ ranking.period = "today"
    /\ ranking.genre = NoGenre
    /\ ranking.date = todayKey
    /\ Len(ranking.result) >= 2
    /\ \E c \in completed :
          /\ c.wrote
          /\ c.date = ranking.date
          /\ c.keyword # Trim(c.keyword)
          /\ Listed(ranking.result, Trim(c.keyword))

\* the ranking of the sums of the daily counts of the last 7 days
Ranking7(r) ==
    WithGenre(r, parseZrangeResult(zrange(zunion(r, dateKeys(7)), DEFAULT_LIMIT - 1)))

\* the query has returned without a Redis error, and nothing was logged and
\* the date did not change since it began
ReturnedUndisturbed(q) ==
    /\ q7[q].pc = "done"
    /\ ~q7[q].failed
    /\ q7[q].seen = redis
    /\ q7[q].keys = dateKeys(7)

\* C24: two 7-day queries under way at once do not disturb each other: a
\* query that returns without a Redis error, while nothing is logged, returns
\* the ranking of the sums of the daily counts of the last 7 days, and once
\* the queries have returned without error no temporary key is left.
C24_Original ==
    /\ \A q \in Queries : ReturnedUndisturbed(q) => q7[q].result = Ranking7(redis)
    /\ (\A q \in Queries : q7[q].pc \in {"idle", "done"} /\ ~q7[q].failed)
          => tmpKeys = <<>>

\* two queries whose temporary keys differ do not disturb each other
C24_DistinctKeys ==
    \A q \in Queries :
        /\ ReturnedUndisturbed(q)
        /\ \A o \in Queries \ {q} : q7[o].tmpKey # q7[q].tmpKey
        => q7[q].result = Ranking7(redis)

\* a query returned the sums of two days while the other one, begun one
\* millisecond later, was under way
C24_Witness ==
    \E q \in Queries, o \in Queries :
        /\ ReturnedUndisturbed(q)
        /\ Len(q7[q].result) > 0
        /\ q7[q].result[1].count = 2
        /\ Len(q7[q].existingKeys) = 2
        /\ q7[o].pc = "del"
        /\ q7[o].tmpKey = q7[q].tmpKey + 1

\* the keywords, trimmed, that logKeyword has written
Logged == {Trim(c.keyword) : c \in {d \in completed : d.wrote}}
LoggedOn(date) == {Trim(c.keyword) : c \in {d \in completed : d.wrote /\ d.date = date}}
ListedKeywords(result) == {result[i].keyword : i \in 1..Len(result)}

\* C25: with a genre the period is ignored: the ranking is read from the set
\* of the genre, which holds the keywords of the genre logged on any date, and
\* "7days" and "today" return what "all" returns.  Without a genre "today"
\* lists keywords logged on the current date only, and "all" keywords logged
\* on any date; each lists all of them when they are no more than the limit.
C25_PeriodAndGenre ==
    [][LET period == ranking'.period
           limit == ranking'.limit
           genre == ranking'.genre
       IN /\ redisEnv
          /\ redis' = redis
          /\ period \in {"all", "7days", "today"}
          /\ period = "7days" => genre # NoGenre
          /\ GetKeywordRanking(period, limit, genre, TRUE)
          => LET listed == ListedKeywords(ranking'.result)
                 from == IF genre # NoGenre
                         THEN {k \in Logged : classifyGenre(k) = genre}
                         ELSE IF period = "today" THEN LoggedOn(todayKey)
                         ELSE Logged
             IN  /\ listed \subseteq from
                 /\ Len(ranking'.result) = IF Cardinality(from) < limit
                                           THEN Cardinality(from) ELSE limit
                 /\ genre # NoGenre /\ period # "all" =>
                       ranking'.result = getKeywordRanking(redis, "all", limit, genre)]_vars

\* on the second day "today" with the genre food lists a keyword that was
\* logged on the first day only
C25_Witness ==
    /\ ranking.period = "today"
    /\ ranking.genre = "food"
    /\ ranking.date = 1
    /\ Len(ranking.result) = 1
    /\ ranking.result[1].keyword \in LoggedOn(0) \ LoggedOn(1)

----------------------------------------------------------------------------
(* Properties of the admin endpoints *)

\* C11 as stated: the stats endpoint returns its data only to a request whose
\* admin_token cookie holds a token that a successful login issued, and
\* answers 401 to every other request.
C11_Original ==
    stats.status # 0 =>
        IF stats.cookie \in issued THEN stats.status = 200 ELSE stats.status = 401

\* what the stats endpoint does ensure: 401 exactly for a request without a
\* (non-empty) admin_token cookie, and tokens are issued only for the
\* configured password
C11_CookieRequired ==
    /\ stats.status # 0 =>
          IF stats.cookie = NoCookie THEN stats.status = 401 ELSE stats.status = 200
    /\ issued # {} => ADMIN_PASSWORD # <<>>
    /\ loginResponse.status = 200 => loginResponse.cookie \in issued

====
